---- MODULE Spec2Model ----
(***************************************************************************)
(* GeoTimerBot: a Telegram bot that raises "entered zone" / "exited zone"  *)
(* notifications against circular geofences ("triggers") and lets a user   *)
(* author a trigger through a conversation (name, location, radius).       *)
(*                                                                         *)
(* The repository holds two builds of the bot: src/bot.js ("GeoTimerBot    *)
(* 2.0") and src/unnamed/part_000 (the earlier build with /add, /list and  *)
(* the delete buttons).  The variable build says which one runs.           *)
(*                                                                         *)
(* Every handler is an async function: it runs synchronously up to its     *)
(* first await, and the rest of it runs when the awaited store or resolver *)
(* call completes.  A handler waiting at an await is a record of procs;    *)
(* Deliver runs the synchronous prefix of the handlers of one update, and  *)
(* a Resume action completes the awaited call of one waiting handler and   *)
(* runs it up to its next await.  The effect of a query on the store is    *)
(* taken at the step that completes it.                                    *)
(***************************************************************************)
EXTENDS Integers, Sequences, FiniteSets, TLC

VARIABLES
    build,        \* "bot_js" | "part_000": which source file is running
    users,        \* table users: the set of user ids
    triggers,     \* table triggers: a set of rows
    nextId,       \* the SERIAL sequence of triggers.id
    userStates,   \* the global userStates: chat id -> reference (0: no entry)
    heap,         \* the session objects: reference -> [step, data]
    procs,        \* handlers waiting at an await: slot -> record
    out,          \* what the last step sent through the transport
    delivered,    \* number of updates the webhook has received
    lastEval,     \* the live-location evaluation that completed last (history)
    lastVerdict,  \* trigger id -> verdict of its latest completed evaluation (history)
    trail,        \* trigger id -> its evaluations (verdict and event) and its
                  \* notifications in the order of sending (history)
    flow,         \* chat id -> progress of the authoring scenario (history)
    epoch,        \* chat id -> number of sessions created so far (history)
    erased,       \* chat id -> "no", "clean" (erased, no insert since), "refilled" (history)
    alive,        \* the Node process is running
    uncaught      \* kinds of the handlers whose promise the last step left rejected

vars == <<build, users, triggers, nextId, userStates, heap, procs, out,
          delivered, lastEval, lastVerdict, trail, flow, epoch, erased,
          alive, uncaught>>

(***************************************************************************)
(* Bounds of the model.                                                    *)
(***************************************************************************)
MaxSamples == 4       \* updates of a run of the evaluation environment, one at a time
MaxOverlapped == 3    \* updates of a run of the evaluation environment, overlapping
MaxMessages == 4      \* updates of a run of the authoring environment, one at a time
MaxRaced == 6         \* updates of a run of the authoring environment, overlapping
MaxErase == 6         \* updates of a run of the erasure environment
MaxDeletes == 3       \* updates of a run of the deletion environment
MaxInFlight == 2      \* handlers waiting at an await at the same time

(***************************************************************************)
(* Program constants.                                                      *)
(***************************************************************************)
MaxRadius == 10000

Chats == {1, 2}
Builds == {"bot_js", "part_000"}

(***************************************************************************)
(* Texts are sequences of characters, so that startsWith, the onText       *)
(* regular expressions and parseInt are computed on them as the code does. *)
(***************************************************************************)
T_start    == <<"/", "s", "t", "a", "r", "t">>
T_add      == <<"/", "a", "d", "d">>
T_oldadd   == <<"/", "o", "l", "d", "a", "d", "d">>
T_list     == <<"/", "l", "i", "s", "t">>
T_forgetme == <<"/", "f", "o", "r", "g", "e", "t", "m", "e">>
T_menu     == <<"/", "m", "e", "n", "u">>
\* the reply-keyboard caption "Главное меню", transliterated
T_menuKey  == <<"G", "l", "a", "v", "n", "o", "e", " ", "m", "e", "n", "y", "u">>
T_help     == <<"/", "h", "e", "l", "p">>
T_home     == <<"H", "o", "m", "e">>
T_r3       == <<"3">>
T_r12abc   == <<"1", "2", "a", "b", "c">>
T_abc      == <<"a", "b", "c">>
T_zero     == <<"0">>
T_neg      == <<"-", "5">>
T_big      == <<"2", "0", "0", "0", "0">>
T_deletePrefix == <<"d", "e", "l", "e", "t", "e", "_">>

DigitChars == <<"0", "1", "2", "3", "4", "5", "6", "7", "8", "9">>
IsDigit(c) == \E i \in 1..10 : DigitChars[i] = c
DigitVal(c) == (CHOOSE i \in 1..10 : DigitChars[i] = c) - 1
IsSpace(c) == c = " "

\* String.prototype.startsWith
StartsWith(t, p) == Len(t) >= Len(p) /\ SubSeq(t, 1, Len(p)) = p

\* RegExp.prototype.exec of a literal pattern: the pattern occurs somewhere
Contains(t, p) ==
    \E i \in 1..(Len(t) + 1) :
        i + Len(p) - 1 <= Len(t) /\ SubSeq(t, i, i + Len(p) - 1) = p

RECURSIVE SkipSpaces(_)
SkipSpaces(t) ==
    IF t # <<>> /\ IsSpace(Head(t)) THEN SkipSpaces(Tail(t)) ELSE t

RECURSIVE DigitsValue(_, _)
DigitsValue(t, acc) ==
    IF t # <<>> /\ IsDigit(Head(t))
    THEN DigitsValue(Tail(t), 10 * acc + DigitVal(Head(t)))
    ELSE acc

\* parseInt(text): leading white space, an optional sign, then the longest
\* prefix of decimal digits; NaN when there is no digit.
ParseInt(t) ==
    LET s    == SkipSpaces(t)
        neg  == s # <<>> /\ Head(s) = "-"
        body == IF s # <<>> /\ Head(s) \in {"+", "-"} THEN Tail(s) ELSE s
    IN  IF body = <<>> \/ ~IsDigit(Head(body))
        THEN [nan |-> TRUE, val |-> 0]
        ELSE [nan |-> FALSE,
              val |-> IF neg THEN 0 - DigitsValue(body, 0) ELSE DigitsValue(body, 0)]

\* data.split('_')[1]
RECURSIVE UpToUnderscore(_)
UpToUnderscore(t) ==
    IF t = <<>> \/ Head(t) = "_" THEN <<>> ELSE <<Head(t)>> \o UpToUnderscore(Tail(t))

RECURSIVE AfterUnderscore(_)
AfterUnderscore(t) ==
    IF t = <<>> THEN <<>>
    ELSE IF Head(t) = "_" THEN Tail(t) ELSE AfterUnderscore(Tail(t))

SplitSecond(t) == UpToUnderscore(AfterUnderscore(t))

(***************************************************************************)
(* Geometry.  The store computes the predicate (PostGIS ST_DWithin on      *)
(* geography points); here points lie on an integer grid of metres and the *)
(* distance is the Euclidean one, compared squared.                        *)
(***************************************************************************)
P0 == [lat |-> 0, lon |-> 0]
P1 == [lat |-> 3, lon |-> 0]
P2 == [lat |-> 0, lon |-> 4]
Points == {P0, P1, P2}

ST_MakePoint(x, y) == [x |-> x, y |-> y]

Dist2(a, b) == (a.x - b.x) * (a.x - b.x) + (a.y - b.y) * (a.y - b.y)

ST_DWithin(a, b, r) == Dist2(a, b) <= r * r

(***************************************************************************)
(* The state a handler works on, as one record, so that the synchronous    *)
(* parts of several handlers compose.                                      *)
(***************************************************************************)
\* history: no evaluation has completed in the last step
NoFailure == [id |-> 0, kind |-> "none"]
NoEval == [chat |-> 0, pt |-> [lat |-> 0, lon |-> 0], rows |-> <<>>, events |-> <<>>,
           writes |-> <<>>, post |-> <<>>, repeat |-> FALSE, erased |-> "no",
           failed |-> NoFailure, prevFailed |-> NoFailure]

World ==
    [users |-> users, triggers |-> triggers, nextId |-> nextId,
     userStates |-> userStates, heap |-> heap, procs |-> procs, out |-> <<>>,
     lastEval |-> NoEval,
     lastVerdict |-> lastVerdict, trail |-> trail, flow |-> flow,
     epoch |-> epoch, erased |-> erased, alive |-> alive, uncaught |-> {},
     overflow |-> FALSE]

Slots == 1..MaxInFlight
NoProc == [kind |-> "none"]
Busy(w) == {s \in Slots : w.procs[s].kind # "none"}
Idle == \A s \in Slots : procs[s].kind = "none"

\* an async call: the handler is parked until the call completes
Spawn(w, p) ==
    IF Busy(w) = Slots THEN [w EXCEPT !.overflow = TRUE]
    ELSE LET s == CHOOSE x \in Slots \ Busy(w) : \A y \in Slots \ Busy(w) : x <= y
         IN  [w EXCEPT !.procs[s] = p]

\* bot.sendMessage(chatId, ...): fire and forget
Msg(to, kind, arg) == [to |-> to, kind |-> kind, arg |-> arg]
Send(w, to, kind, arg) == [w EXCEPT !.out = Append(@, Msg(to, kind, arg))]

(***************************************************************************)
(* The store (object db).                                                  *)
(***************************************************************************)
upsertUser(w, id) == [w EXCEPT !.users = @ \cup {id}]

\* the foreign key triggers.user_id -> users.id rejects the insert
addTriggerRejected(w, userId) == userId \notin w.users

\* a rejected INSERT has drawn its id from the sequence all the same
addTriggerFailed(w) == [w EXCEPT !.nextId = @ + 1]

\* addTrigger with a fault: ST_MakePoint is given the latitude first
addTrigger_LatFirst(w, userId, name, lat, lon, radius) ==
    [w EXCEPT
        !.triggers = @ \cup {[id |-> w.nextId, user_id |-> userId, name |-> name,
                              location |-> ST_MakePoint(lat, lon),
                              radius |-> radius, last_state |-> "outside"]},
        !.nextId = @ + 1,
        !.erased[userId] = IF @ = "no" THEN "no" ELSE "refilled",
        !.trail = [i \in DOMAIN @ \cup {w.nextId} |->
                      IF i = w.nextId THEN [init |-> "outside", log |-> <<>>, notes |-> <<>>] ELSE @[i]]]

addTrigger(w, userId, name, lat, lon, radius) ==
    [w EXCEPT
        !.triggers = @ \cup {[id |-> w.nextId, user_id |-> userId, name |-> name,
                              location |-> ST_MakePoint(lon, lat),
                              radius |-> radius, last_state |-> "outside"]},
        !.nextId = @ + 1,
        !.erased[userId] = IF @ = "no" THEN "no" ELSE "refilled",
        !.trail = [i \in DOMAIN @ \cup {w.nextId} |->
                      IF i = w.nextId THEN [init |-> "outside", log |-> <<>>, notes |-> <<>>] ELSE @[i]]]

deleteTriggerCount(w, triggerId, userId) ==
    Cardinality({t \in w.triggers : t.id = triggerId /\ t.user_id = userId})

\* deleteTrigger with a fault: the AND user_id = $2 clause is missing
deleteTrigger_AnyOwner(w, triggerId, userId) ==
    [w EXCEPT !.triggers = {t \in @ : t.id # triggerId}]

deleteTrigger(w, triggerId, userId) ==
    [w EXCEPT !.triggers = {t \in @ : ~(t.id = triggerId /\ t.user_id = userId)}]

\* deleteAllUserData, first statement
deleteUserTriggers(w, userId) ==
    [w EXCEPT !.triggers = {t \in @ : t.user_id # userId}]

\* deleteAllUserData, second statement (ON DELETE CASCADE)
\* deleteUserRow with a fault: the foreign key lacks ON DELETE CASCADE
deleteUserRow_NoCascade(w, userId) == [w EXCEPT !.users = @ \ {userId}]

deleteUserRow(w, userId) ==
    [w EXCEPT !.users = @ \ {userId},
              !.triggers = {t \in @ : t.user_id # userId}]

\* checkAllTriggers with a fault: the WHERE user_id = $1 clause is missing
checkAllTriggers_NoFilter(w, userId, lat, lon) ==
    {[id |-> t.id, name |-> t.name, radius |-> t.radius, last_state |-> t.last_state,
      is_inside |-> ST_DWithin(t.location, ST_MakePoint(lon, lat), t.radius)] :
        t \in w.triggers}

checkAllTriggers(w, userId, lat, lon) ==
    {[id |-> t.id, name |-> t.name, radius |-> t.radius, last_state |-> t.last_state,
      is_inside |-> ST_DWithin(t.location, ST_MakePoint(lon, lat), t.radius)] :
        t \in {x \in w.triggers : x.user_id = userId}}

\* updateTriggerState with a fault: the WHERE id = $2 clause is missing
updateTriggerState_AllRows(w, triggerId, newState) ==
    [w EXCEPT !.triggers = {[t EXCEPT !.last_state = newState] : t \in @}]

updateTriggerState(w, triggerId, newState) ==
    [w EXCEPT !.triggers =
        {IF t.id = triggerId THEN [t EXCEPT !.last_state = newState] ELSE t : t \in @}]

(***************************************************************************)
(* bot.on('location'), live branch: the geofence evaluation.               *)
(***************************************************************************)
Verdict(isInside) == IF isInside THEN "inside" ELSE "outside"

\* Transition with a fault: the exit branch is missing; last_state is not compared
Transition_EnterOnly(r) ==
    IF r.is_inside /\ r.last_state = "outside" THEN "entered" ELSE "none"

Transition_NoStateCheck(r) ==
    IF r.is_inside THEN "entered"
    ELSE IF r.last_state = "inside" THEN "exited"
    ELSE "none"

\* the two-state comparison of one fetched row
Transition(r) ==
    IF r.is_inside /\ r.last_state = "outside" THEN "entered"
    ELSE IF ~r.is_inside /\ r.last_state = "inside" THEN "exited"
    ELSE "none"

\* NewState with a fault: the exit branch writes 'inside' too
NewState_AlwaysInside(ev) == "inside"

NewState(ev) == IF ev = "entered" THEN "inside" ELSE "outside"

EventsFor(events, id) == SelectSeq(events, LAMBDA e : e.id = id)
WritesFor(writes, id) == SelectSeq(writes, LAMBDA x : x.id = id)
RowIds(rows) == {rows[i].id : i \in 1..Len(rows)}
RowOf(rows, id) == rows[CHOOSE i \in 1..Len(rows) : rows[i].id = id]
LastStateOf(w, id) ==
    IF \E t \in w.triggers : t.id = id
    THEN (CHOOSE t \in w.triggers : t.id = id).last_state
    ELSE "gone"

\* the handler returns: the evaluation is complete (history only)
FinishEval(w, s, p) ==
    LET ids == RowIds(p.g.rows)
        ev(id) == IF EventsFor(p.g.events, id) = <<>> THEN "none"
                  ELSE EventsFor(p.g.events, id)[1].kind
    IN  [w EXCEPT
          !.procs[s] = NoProc,
          !.lastEval = [chat |-> p.chat, pt |-> p.pt, rows |-> p.g.rows,
                        events |-> p.g.events, writes |-> p.g.writes,
                        post |-> [id \in ids |-> LastStateOf(w, id)],
                        repeat |-> p.g.repeat, erased |-> p.g.erased,
                        failed |-> NoFailure, prevFailed |-> p.g.prevFailed],
          !.lastVerdict = [id \in DOMAIN @ \cup ids |->
                             IF id \in ids THEN Verdict(RowOf(p.g.rows, id).is_inside)
                             ELSE @[id]],
          !.trail = [id \in DOMAIN @ |->
                       IF id \in ids
                       THEN [@[id] EXCEPT !.log =
                               Append(@, [v |-> Verdict(RowOf(p.g.rows, id).is_inside),
                                          e |-> ev(id)])]
                       ELSE @[id]]]

\* for (const trigger of triggers) { ... }, up to the next await
RECURSIVE EvalLoop(_, _, _, _)
EvalLoop(w, s, p, rows) ==
    IF rows = <<>> THEN FinishEval(w, s, p)
    ELSE LET r  == Head(rows)
             ev == Transition(r)
         IN  IF ev = "none" THEN EvalLoop(w, s, p, Tail(rows))
             ELSE [Send(w, p.chat, ev, r.name) EXCEPT
                     !.trail = [i \in DOMAIN @ |->
                                  IF i = r.id THEN [@[i] EXCEPT !.notes = Append(@, ev)]
                                  ELSE @[i]],
                     !.procs[s] = [p EXCEPT
                         !.pc = "write", !.rows = Tail(rows),
                         !.pend = [id |-> r.id, st |-> NewState(ev)],
                         !.g.events = Append(@, [id |-> r.id, kind |-> ev, name |-> r.name])]]

\* the synchronous part: db.checkAllTriggers is called and awaited
LocationLive(w, chat, pt) ==
    Spawn(w, [kind |-> "location", pc |-> "fetch", chat |-> chat, pt |-> pt,
              rows |-> <<>>, pend |-> [id |-> 0, st |-> ""],
              g |-> [rows |-> <<>>, events |-> <<>>, writes |-> <<>>,
                     repeat |-> lastEval.chat = chat /\ lastEval.pt = pt,
                     erased |-> "no",
                     prevFailed |-> IF lastEval.chat = chat THEN lastEval.failed
                                    ELSE NoFailure]])

\* all orders of a set of rows (the SELECT has no ORDER BY)
Orders(S) ==
    {q \in [1..Cardinality(S) -> S] : \A i, j \in 1..Cardinality(S) : q[i] = q[j] => i = j}

\* checkAllTriggers has returned rows, in the order q
AfterFetch(w, s, q) ==
    LET p == [w.procs[s] EXCEPT !.g.rows = q, !.g.erased = w.erased[w.procs[s].chat]]
    IN  IF build = "bot_js" /\ Len(q) = 0 THEN FinishEval(w, s, p)
        ELSE EvalLoop(w, s, p, q)

\* updateTriggerState has returned
AfterWrite(w, s) ==
    LET p  == w.procs[s]
        w1 == updateTriggerState(w, p.pend.id, p.pend.st)
        p1 == [p EXCEPT !.g.writes = Append(@, p.pend)]
    IN  EvalLoop(w1, s, p1, p.rows)

(***************************************************************************)
(* The authoring session: userStates[chatId] = { step, data }.             *)
(* ep, nameEp, locEp and replaced are history: the session of the chat the *)
(* object is (first, second, ...), the session that was current when the   *)
(* update that supplied each field was delivered, and the step of the      *)
(* session the object replaced.                                            *)
(***************************************************************************)
NoLoc == [lat |-> -1, lon |-> -1]      \* data.location undefined
NoData == [name |-> <<>>, location |-> NoLoc, radius |-> 0, nameEp |-> 0, locEp |-> 0]
NoSession == [step |-> "none", data |-> NoData, ep |-> 0, replaced |-> "none"]

SessionOf(w, chat) ==
    IF w.userStates[chat] = 0 THEN NoSession ELSE w.heap[w.userStates[chat]]

NewRef(w) == CHOOSE r \in 1..(Cardinality(DOMAIN w.heap) + 1) : r \notin DOMAIN w.heap

\* ResetSession with a fault: the session object is kept and only its step is reset
ResetSession_InPlace(w, chat) ==
    IF w.userStates[chat] = 0
    THEN LET r == NewRef(w)
         IN  [w EXCEPT !.userStates[chat] = r,
                       !.epoch[chat] = @ + 1,
                       !.heap = [x \in DOMAIN @ \cup {r} |->
                                   IF x = r THEN [step |-> "awaiting_name", data |-> NoData,
                                                  ep |-> w.epoch[chat] + 1,
                                                  replaced |-> "none"]
                                   ELSE @[x]]]
    ELSE [w EXCEPT !.epoch[chat] = @ + 1,
                   !.heap[w.userStates[chat]].step = "awaiting_name",
                   !.heap[w.userStates[chat]].ep = w.epoch[chat] + 1,
                   !.heap[w.userStates[chat]].replaced = SessionOf(w, chat).step]

\* userStates[chatId] = { step: 'awaiting_name', data: {} }
ResetSession(w, chat) ==
    LET r == NewRef(w)
    IN  [w EXCEPT !.userStates[chat] = r,
                  !.epoch[chat] = @ + 1,
                  !.heap = [x \in DOMAIN @ \cup {r} |->
                              IF x = r THEN [step |-> "awaiting_name", data |-> NoData,
                                             ep |-> w.epoch[chat] + 1,
                                             replaced |-> SessionOf(w, chat).step]
                              ELSE @[x]]]

\* delete userStates[chatId]
DeleteSession(w, chat) == [w EXCEPT !.userStates[chat] = 0]

\* RadiusRejected with a fault: zero passes
RadiusRejected_ZeroPasses(r) ==
    r.nan \/ r.val < 0 \/ (build = "part_000" /\ r.val > MaxRadius)

\* the radius check of step awaiting_radius
RadiusRejected(r) ==
    r.nan \/ r.val <= 0 \/ (build = "part_000" /\ r.val > MaxRadius)

\* the early return of bot.on('message')
MessageIgnored(w, u) ==
    \/ w.userStates[u.chat] = 0
    \/ u.text = <<>>
    \/ StartsWith(u.text, <<"/">>)
    \/ (build = "part_000" /\ u.type = "location")

\* bot.on('message'), up to its first await
OnMessage(w, u) ==
    IF MessageIgnored(w, u) THEN w
    ELSE
      LET ref == w.userStates[u.chat]
          st  == w.heap[ref]
      IN  IF st.step = "awaiting_name" THEN
              Send([w EXCEPT !.heap[ref].data.name = u.text,
                             !.heap[ref].data.nameEp = w.epoch[u.chat],
                             !.heap[ref].step = "awaiting_location"],
                   u.chat, "ask_location", u.text)
          ELSE IF st.step = "awaiting_location" THEN
              Spawn(Send(w, u.chat, "searching", <<>>),
                    [kind |-> "message", pc |-> "geocode", chat |-> u.chat,
                     state |-> ref, text |-> u.text, ep |-> w.epoch[u.chat]])
          ELSE IF st.step = "awaiting_radius" THEN
              LET radius == ParseInt(u.text)
              IN  IF RadiusRejected(radius) THEN Send(w, u.chat, "bad_radius", <<>>)
                  ELSE Spawn(IF build = "part_000"
                             THEN [w EXCEPT !.heap[ref].data.radius = radius.val]
                             ELSE w,
                             [kind |-> "message", pc |-> "addTrigger", chat |-> u.chat,
                              state |-> ref, name |-> st.data.name,
                              lat |-> st.data.location.lat, lon |-> st.data.location.lon,
                              radius |-> radius.val,
                              g |-> [ep |-> st.ep, nameEp |-> st.data.nameEp,
                                     locEp |-> st.data.locEp, replaced |-> st.replaced]])
          ELSE w

\* AfterGeocode with a fault: the session advances whatever geocodeAddress returned
AfterGeocode_AlwaysAdvances(w, s, coords) ==
    LET p  == w.procs[s]
        w0 == [w EXCEPT !.procs[s] = NoProc]
    IN  Send([w0 EXCEPT !.heap[p.state].data.location = coords,
                        !.heap[p.state].data.locEp = p.ep,
                        !.heap[p.state].step = "awaiting_radius"],
             p.chat, "ask_radius", <<>>)

\* geocodeAddress has returned coords (NoLoc: null, not found or resolver error)
AfterGeocode(w, s, coords) ==
    LET p  == w.procs[s]
        w0 == [w EXCEPT !.procs[s] = NoProc]
    IN  IF coords # NoLoc
        THEN Send([w0 EXCEPT !.heap[p.state].data.location = coords,
                             !.heap[p.state].data.locEp = p.ep,
                             !.heap[p.state].step = "awaiting_radius"],
                  p.chat, "ask_radius", <<>>)
        ELSE Send(w0, p.chat, "addr_not_found", <<>>)

\* db.addTrigger has returned or thrown
AfterAddTrigger(w, s) ==
    LET p  == w.procs[s]
        w0 == [w EXCEPT !.procs[s] = NoProc]
    IN  IF addTriggerRejected(w, p.chat)
        THEN DeleteSession(Send(addTriggerFailed(w0), p.chat, "error", <<>>), p.chat)
        ELSE DeleteSession(
                Send(addTrigger(w0, p.chat, p.name, p.lat, p.lon, p.radius),
                     p.chat, "created", w.heap[p.state].data.name),
                p.chat)

\* LocationSingle with a fault: the step of the session is not looked at
LocationSingle_AnyStep(w, chat, pt) ==
    LET ref == w.userStates[chat]
    IN  IF ref # 0
        THEN Send([w EXCEPT !.heap[ref].data.location = pt,
                            !.heap[ref].data.locEp = w.epoch[chat],
                            !.heap[ref].step = "awaiting_radius"],
                  chat, "ask_radius", <<>>)
        ELSE w

\* bot.on('location'), the branch of a single-shot location
LocationSingle(w, chat, pt) ==
    LET ref == w.userStates[chat]
    IN  IF ref # 0 /\ w.heap[ref].step = "awaiting_location"
        THEN Send([w EXCEPT !.heap[ref].data.location = pt,
                            !.heap[ref].data.locEp = w.epoch[chat],
                            !.heap[ref].step = "awaiting_radius"],
                  chat, "ask_radius", <<>>)
        ELSE w

\* OnLocation with a fault: a live sample also takes the branch of the session
OnLocation_FallsThrough(w, u) ==
    LocationSingle(IF u.live THEN LocationLive(w, u.chat, u.pt) ELSE w, u.chat, u.pt)

\* bot.on('location')
OnLocation(w, u) ==
    IF u.live THEN LocationLive(w, u.chat, u.pt) ELSE LocationSingle(w, u.chat, u.pt)

(***************************************************************************)
(* db.getTriggers: ... ORDER BY name.  Names are compared character by     *)
(* character in the order of CharOrder; rows of equal name by id.          *)
(***************************************************************************)
CharOrder == <<" ", "-", "/", "0", "1", "2", "3", "4", "5", "6", "7", "8", "9",
               "G", "H", "W", "_", "a", "b", "c", "d", "e", "f", "g", "h", "i", "k",
               "l", "m", "n", "o", "p", "r", "s", "t", "u", "v", "y">>
CharCode(c) == CHOOSE i \in 1..Len(CharOrder) : CharOrder[i] = c

RECURSIVE NameLess(_, _)
NameLess(a, b) ==
    IF b = <<>> THEN FALSE
    ELSE IF a = <<>> THEN TRUE
    ELSE IF Head(a) = Head(b) THEN NameLess(Tail(a), Tail(b))
    ELSE CharCode(Head(a)) < CharCode(Head(b))

RowBefore(x, y) == NameLess(x.name, y.name) \/ (x.name = y.name /\ x.id < y.id)

RECURSIVE SortRows(_)
SortRows(S) ==
    IF S = {} THEN <<>>
    ELSE LET m == CHOOSE x \in S : \A y \in S \ {x} : RowBefore(x, y)
         IN  <<m>> \o SortRows(S \ {m})

getTriggers(w, userId) ==
    SortRows({[id |-> t.id, name |-> t.name, radius |-> t.radius] :
                 t \in {x \in w.triggers : x.user_id = userId}})

(***************************************************************************)
(* The command handlers (bot.onText) and the delete buttons.               *)
(***************************************************************************)
StartRe(t)  == Contains(t, T_start) \/ Contains(t, T_help)
AddRe(t)    == IF build = "part_000" THEN Contains(t, T_add) ELSE Contains(t, T_oldadd)
ListRe(t)   == build = "part_000" /\ Contains(t, T_list)
ForgetRe(t) == Contains(t, T_forgetme)
MenuRe(t)   == build = "bot_js" /\ (Contains(t, T_menu) \/ Contains(t, T_menuKey))

OnStart(w, u)    == Spawn(w, [kind |-> "start", pc |-> "upsert", chat |-> u.chat])
OnAdd(w, u)      == Spawn(w, [kind |-> "add", pc |-> "upsert", chat |-> u.chat])
OnList(w, u)     == Spawn(w, [kind |-> "list", pc |-> "upsert", chat |-> u.chat])
OnForgetme(w, u) == Spawn(w, [kind |-> "forgetme", pc |-> "delTriggers", chat |-> u.chat])
OnMenu(w, u)     == Send(w, u.chat, "menu", <<>>)

\* the callbacks whose regular expression matches, in the order of registration
OnText(w, u) ==
    LET w1 == IF StartRe(u.text) THEN OnStart(w, u) ELSE w
        w2 == IF MenuRe(u.text) THEN OnMenu(w1, u) ELSE w1
        w3 == IF AddRe(u.text) THEN OnAdd(w2, u) ELSE w2
        w4 == IF ListRe(u.text) THEN OnList(w3, u) ELSE w3
        w5 == IF ForgetRe(u.text) THEN OnForgetme(w4, u) ELSE w4
    IN  w5

\* bot.on('callback_query'), up to its await
OnCallback(w, u) ==
    IF StartsWith(u.data, T_deletePrefix)
    THEN Spawn(w, [kind |-> "callback", pc |-> "deleteTrigger", chat |-> u.chat,
                   from |-> u.from, triggerId |-> ParseInt(SplitSecond(u.data)).val])
    ELSE w

AfterStartUpsert(w, s) ==
    LET p == w.procs[s]
    IN  Send(upsertUser([w EXCEPT !.procs[s] = NoProc], p.chat), p.chat, "welcome", <<>>)

AfterAddUpsert(w, s) ==
    LET p == w.procs[s]
    IN  Send(ResetSession(upsertUser([w EXCEPT !.procs[s] = NoProc], p.chat), p.chat),
             p.chat, "ask_name", <<>>)

AfterListUpsert(w, s) ==
    [upsertUser(w, w.procs[s].chat) EXCEPT !.procs[s].pc = "getTriggers"]

AfterGetTriggers(w, s) ==
    LET p    == w.procs[s]
        rows == getTriggers(w, p.chat)
        w0   == [w EXCEPT !.procs[s] = NoProc]
    IN  IF Len(rows) = 0 THEN Send(w0, p.chat, "no_triggers", <<>>)
        ELSE Send(w0, p.chat, "list", rows)

\* deleteAllUserData: DELETE FROM triggers has returned
AfterDelTriggers(w, s) ==
    [deleteUserTriggers(w, w.procs[s].chat) EXCEPT !.procs[s].pc = "delUser"]

\* deleteAllUserData: DELETE FROM users has returned
AfterDelUser(w, s) ==
    LET p == w.procs[s]
    IN  Send(deleteUserRow([w EXCEPT !.procs[s] = NoProc, !.erased[p.chat] = "clean"], p.chat),
             p.chat, "forgotten", <<>>)

AfterDeleteTrigger(w, s) ==
    LET p  == w.procs[s]
        w0 == [w EXCEPT !.procs[s] = NoProc]
        success == deleteTriggerCount(w, p.triggerId, p.from) > 0
    IN  Send(deleteTrigger(w0, p.triggerId, p.from), p.chat,
             IF success THEN "deleted" ELSE "delete_failed", <<>>)

(***************************************************************************)
(* The updates the webhook receives.                                       *)
(***************************************************************************)
NoUpd == [type |-> "none", chat |-> 0, from |-> 0, text |-> <<>>, pt |-> P0,
          live |-> FALSE, data |-> <<>>]
TextUpd(c, t)        == [NoUpd EXCEPT !.type = "text", !.chat = c, !.from = c, !.text = t]
LocationUpd(c, p, l) == [NoUpd EXCEPT !.type = "location", !.chat = c, !.from = c,
                                      !.pt = p, !.live = l]
CallbackUpd(c, d)    == [NoUpd EXCEPT !.type = "callback", !.chat = c, !.from = c, !.data = d]

\* id SERIAL PRIMARY KEY: the next value of the sequence when the process starts
FirstNewId == 4
DeleteData(id) == T_deletePrefix \o <<DigitChars[id + 1]>>

\* the command that starts the authoring flow in the running build
AddText == IF build = "part_000" THEN T_add ELSE T_oldadd

(***************************************************************************)
(* History: the authoring scenario "add intent, name, single-shot          *)
(* location, radius" of one chat, followed update by update.               *)
(***************************************************************************)
NoFlow == [stage |-> 0, name |-> <<>>, pt |-> NoLoc, rtext |-> <<>>, base |-> {}]

IsAddIntent(u) == u.type = "text" /\ StartsWith(u.text, <<"/">>) /\ AddRe(u.text)
                  /\ ~ForgetRe(u.text)
PlainText(t) == t # <<>> /\ ~StartsWith(t, <<"/">>) /\ ~AddRe(t) /\ ~ForgetRe(t)

FlowStep(f, u) ==
    IF IsAddIntent(u)
    THEN [NoFlow EXCEPT !.stage = 1,
                        !.base = {t.id : t \in {x \in triggers : x.user_id = u.chat}}]
    ELSE IF f.stage = 1 /\ u.type = "text" /\ PlainText(u.text)
    THEN [f EXCEPT !.stage = 2, !.name = u.text]
    ELSE IF f.stage = 2 /\ u.type = "location" /\ ~u.live
    THEN [f EXCEPT !.stage = 3, !.pt = u.pt]
    ELSE IF f.stage = 3 /\ u.type = "text" /\ PlainText(u.text)
            /\ ~ParseInt(u.text).nan /\ ParseInt(u.text).val > 0
            /\ ParseInt(u.text).val <= MaxRadius
    THEN [f EXCEPT !.stage = 4, !.rtext = u.text]
    ELSE NoFlow

(***************************************************************************)
(* The next state.                                                         *)
(***************************************************************************)
LiveRefs(w) ==
    {w.userStates[c] : c \in Chats} \cup
    {w.procs[s].state : s \in {x \in Slots : w.procs[x].kind = "message"}}

Commit(w) ==
    LET ids == {t.id : t \in w.triggers}
    IN  /\ users' = w.users
        /\ triggers' = w.triggers
        /\ nextId' = w.nextId
        /\ userStates' = w.userStates
        /\ heap' = [r \in DOMAIN w.heap \cap LiveRefs(w) |-> w.heap[r]]
        /\ procs' = w.procs
        /\ out' = w.out
        /\ lastEval' = w.lastEval
        /\ lastVerdict' = [i \in DOMAIN w.lastVerdict \cap ids |-> w.lastVerdict[i]]
        /\ trail' = [i \in DOMAIN w.trail \cap ids |-> w.trail[i]]
        /\ flow' = w.flow
        /\ epoch' = w.epoch
        /\ erased' = w.erased
        /\ alive' = w.alive
        /\ uncaught' = w.uncaught
        /\ UNCHANGED build

\* bot.processUpdate(req.body) of one update: 'message', then the event of
\* the message type, then the onText callbacks
Dispatch(w, u) ==
    IF u.type = "text" THEN OnText(OnMessage(w, u), u)
    ELSE IF u.type = "location" THEN OnLocation(OnMessage(w, u), u)
    ELSE IF build = "part_000" THEN OnCallback(w, u)
    ELSE w

\* app.post(webhookPath): the handlers of update u run up to their first await
Handle(u) == Commit(Dispatch([World EXCEPT !.flow[u.chat] = FlowStep(@, u)], u))

\* an update arrives; max bounds the updates of a run
Deliver(u, max) ==
    /\ alive
    /\ delivered < max
    /\ ~Dispatch(World, u).overflow
    /\ delivered' = delivered + 1
    /\ Handle(u)

At(s, kind, pc) == procs[s].kind = kind /\ procs[s].pc = pc

Resume(w) == alive /\ UNCHANGED delivered /\ Commit(w)

ResumeStart(s) == At(s, "start", "upsert") /\ Resume(AfterStartUpsert(World, s))

ResumeAdd(s) == At(s, "add", "upsert") /\ Resume(AfterAddUpsert(World, s))

ResumeListUpsert(s) == At(s, "list", "upsert") /\ Resume(AfterListUpsert(World, s))

ResumeGetTriggers(s) == At(s, "list", "getTriggers") /\ Resume(AfterGetTriggers(World, s))

ResumeDelTriggers(s) == At(s, "forgetme", "delTriggers") /\ Resume(AfterDelTriggers(World, s))

ResumeDelUser(s) == At(s, "forgetme", "delUser") /\ Resume(AfterDelUser(World, s))

ResumeDeleteTrigger(s) ==
    At(s, "callback", "deleteTrigger") /\ Resume(AfterDeleteTrigger(World, s))

ResumeFetch(s) ==
    /\ At(s, "location", "fetch")
    /\ \E q \in Orders(checkAllTriggers(World, procs[s].chat, procs[s].pt.lat, procs[s].pt.lon)) :
          Resume(AfterFetch(World, s, q))

ResumeWrite(s) == At(s, "location", "write") /\ Resume(AfterWrite(World, s))

ResumeGeocode(s) ==
    /\ At(s, "message", "geocode")
    /\ \E coords \in {P1, NoLoc} : Resume(AfterGeocode(World, s, coords))

ResumeAddTrigger(s) == At(s, "message", "addTrigger") /\ Resume(AfterAddTrigger(World, s))

(***************************************************************************)
(* A query of the store fails: pool.query rejects and the await throws.    *)
(***************************************************************************)
\* the handler has no try around the await: its promise is rejected and nothing
\* handles the rejection
Rejects(w, s) ==
    [w EXCEPT !.procs[s] = NoProc, !.uncaught = @ \cup {w.procs[s].kind}]

\* the live branch of bot.on('location') ends on a failed query: src/bot.js
\* catches it and logs, src/unnamed/part_000 has no try
EvalFails(w, s, failure) ==
    LET p  == w.procs[s]
        w1 == [w EXCEPT !.lastEval =
                 [chat |-> p.chat, pt |-> p.pt, rows |-> p.g.rows,
                  events |-> p.g.events, writes |-> p.g.writes,
                  post |-> [id \in RowIds(p.g.rows) |-> LastStateOf(w, id)],
                  repeat |-> p.g.repeat, erased |-> p.g.erased,
                  failed |-> failure, prevFailed |-> p.g.prevFailed]]
    IN  IF build = "bot_js" THEN [w1 EXCEPT !.procs[s] = NoProc] ELSE Rejects(w1, s)

\* AfterWriteFails with a fault: the row is updated although the query reports a failure
AfterWriteFails_Applied(w, s) ==
    EvalFails(updateTriggerState(w, w.procs[s].pend.id, w.procs[s].pend.st), s,
              [id |-> w.procs[s].pend.id,
               kind |-> IF w.procs[s].pend.st = "inside" THEN "entered" ELSE "exited"])

\* db.updateTriggerState has thrown
AfterWriteFails(w, s) ==
    EvalFails(w, s, [id |-> w.procs[s].pend.id,
                     kind |-> IF w.procs[s].pend.st = "inside" THEN "entered" ELSE "exited"])

\* db.checkAllTriggers has thrown
AfterFetchFails(w, s) == EvalFails(w, s, [id |-> 0, kind |-> "fetch"])

\* db.addTrigger has thrown: the catch of bot.on('message')
AfterAddTriggerFails(w, s) ==
    DeleteSession(Send([w EXCEPT !.procs[s] = NoProc], w.procs[s].chat, "error", <<>>),
                  w.procs[s].chat)

\* an unhandled rejection ends the process or only warns, as the Node version decides
ResumeFailing(w) ==
    \E a \in (IF w.uncaught = {} THEN {TRUE} ELSE BOOLEAN) : Resume([w EXCEPT !.alive = a])

ResumeWriteFails(s) == At(s, "location", "write") /\ ResumeFailing(AfterWriteFails(World, s))

ResumeFetchFails(s) == At(s, "location", "fetch") /\ ResumeFailing(AfterFetchFails(World, s))

ResumeAddTriggerFails(s) ==
    At(s, "message", "addTrigger") /\ ResumeFailing(AfterAddTriggerFails(World, s))

\* db.upsertUser, db.getTriggers, db.deleteAllUserData or db.deleteTrigger has thrown
\* in a command handler or in the delete button handler
ResumeCommandFails(s) ==
    /\ procs[s].kind \in {"start", "add", "list", "forgetme", "callback"}
    /\ ResumeFailing(Rejects(World, s))

(***************************************************************************)
(* The initial state: the process has just started (no session, no handler *)
(* running) on a store that earlier runs have filled.                      *)
(***************************************************************************)
T_work == <<"W", "o", "r", "k">>
SeedIds == {1, 2, 3}
Seed(id, ls) ==
    [id |-> id,
     user_id |-> IF id = 3 THEN 2 ELSE 1,
     name |-> IF id = 2 THEN T_work ELSE T_home,
     location |-> IF id = 2 THEN ST_MakePoint(P2.lon, P2.lat) ELSE ST_MakePoint(P0.lon, P0.lat),
     radius |-> 3,
     last_state |-> ls]
SeededDBs ==
    UNION {{{Seed(i, f[i]) : i \in S} : f \in [S -> {"inside", "outside"}]} :
              S \in SUBSET SeedIds}

InitOn(dbs) ==
    /\ build \in Builds
    /\ triggers \in dbs
    /\ users = {t.user_id : t \in triggers}
    /\ nextId = FirstNewId
    /\ userStates = [c \in Chats |-> 0]
    /\ heap = [r \in {} |-> NoSession]
    /\ procs = [s \in Slots |-> NoProc]
    /\ out = <<>>
    /\ delivered = 0
    /\ lastEval = NoEval
    /\ lastVerdict = [i \in {} |-> "outside"]
    /\ trail = [i \in {t.id : t \in triggers} |->
                   [init |-> (CHOOSE t \in triggers : t.id = i).last_state,
                    log |-> <<>>, notes |-> <<>>]]
    /\ flow = [c \in Chats |-> NoFlow]
    /\ epoch = [c \in Chats |-> 0]
    /\ erased = [c \in Chats |-> "no"]
    /\ alive = TRUE
    /\ uncaught = {}

(***************************************************************************)
(* The evaluation environment: both chats stream live locations.           *)
(***************************************************************************)
DeliverLive(max) ==
    \E c \in Chats, p \in Points : Deliver(LocationUpd(c, p, TRUE), max)

EvalResumes == \E s \in Slots : ResumeFetch(s) \/ ResumeWrite(s)

InitEval == InitOn(SeededDBs)

\* one update at a time: an update is delivered when every handler of the
\* earlier ones has returned
NextEvalSerial == (Idle /\ DeliverLive(MaxSamples)) \/ EvalResumes

SpecEvalSerial == InitEval /\ [][NextEvalSerial]_vars

\* the webhook starts the handlers of an update while earlier ones still wait
NextEval == DeliverLive(MaxOverlapped) \/ EvalResumes

InitEvalRaced ==
    InitOn({{Seed(1, "outside"), Seed(2, "inside"), Seed(3, "outside")},
            {Seed(1, "inside"), Seed(3, "inside")}})

SpecEval == InitEvalRaced /\ [][NextEval]_vars

(***************************************************************************)
(* The authoring environment: both chats send the add command, texts and   *)
(* single-shot locations.                                                  *)
(***************************************************************************)
AuthorTexts == {AddText, T_home, T_r3, T_r12abc, T_abc, T_zero, T_neg, T_big}

DeliverText(texts, chats, max) ==
    \E c \in chats, t \in texts : Deliver(TextUpd(c, t), max)

DeliverSingle(chats, max) ==
    \E c \in chats : Deliver(LocationUpd(c, P1, FALSE), max)

AuthorResumes ==
    \E s \in Slots : ResumeAdd(s) \/ ResumeGeocode(s) \/ ResumeAddTrigger(s)

InitAuthor == InitOn({{}, {Seed(1, "outside"), Seed(3, "inside")}})

NextAuthorSerial ==
    \/ Idle /\ DeliverText(AuthorTexts, Chats, MaxMessages)
    \/ Idle /\ DeliverSingle(Chats, MaxMessages)
    \/ AuthorResumes

SpecAuthorSerial == InitAuthor /\ [][NextAuthorSerial]_vars

\* one chat whose updates overlap
RacedTexts == {AddText, T_home, T_work, T_r3}

NextAuthor ==
    \/ DeliverText(RacedTexts, {1}, MaxRaced)
    \/ DeliverSingle({1}, MaxRaced)
    \/ AuthorResumes

SpecAuthor == InitAuthor /\ [][NextAuthor]_vars

(***************************************************************************)
(* The erasure environment: chat 1 erases its data, authors triggers and   *)
(* streams its position, its updates overlapping; chat 2 owns a trigger.   *)
(***************************************************************************)
EraseTexts == {T_forgetme, AddText, T_home, T_r3}

EraseResumes ==
    \E s \in Slots :
       \/ ResumeDelTriggers(s) \/ ResumeDelUser(s)
       \/ ResumeFetch(s) \/ ResumeWrite(s)

InitErase == InitOn({{Seed(3, "inside")}, {Seed(1, "outside"), Seed(3, "inside")}})

NextErase ==
    \/ DeliverText(EraseTexts, {1}, MaxErase)
    \/ DeliverSingle({1}, MaxErase)
    \/ Deliver(LocationUpd(1, P1, TRUE), MaxErase)
    \/ AuthorResumes
    \/ EraseResumes

SpecErase == InitErase /\ [][NextErase]_vars

(***************************************************************************)
(* The deletion environment: both chats press delete buttons (of their own *)
(* triggers, of the other chat's, of triggers that do not exist) and ask   *)
(* for their list, their updates overlapping.                              *)
(***************************************************************************)
ButtonIds == {1, 2, 3, 5}

DeliverCallback(max) ==
    \E c \in Chats, id \in ButtonIds : Deliver(CallbackUpd(c, DeleteData(id)), max)

DeleteResumes ==
    \E s \in Slots :
       ResumeDeleteTrigger(s) \/ ResumeListUpsert(s) \/ ResumeGetTriggers(s)

InitDelete ==
    InitOn({{Seed(1, "outside"), Seed(2, "inside"), Seed(3, "outside")},
            {Seed(2, "outside"), Seed(3, "inside")}})

NextDelete ==
    \/ DeliverCallback(MaxDeletes)
    \/ DeliverText({T_list}, Chats, MaxDeletes)
    \/ DeleteResumes

SpecDelete == InitDelete /\ [][NextDelete]_vars

(***************************************************************************)
(* The evaluation environment on a store whose queries may fail, one       *)
(* update at a time.                                                       *)
(***************************************************************************)
FaultyEvalResumes == \E s \in Slots : ResumeWriteFails(s) \/ ResumeFetchFails(s)

NextEvalFaulty ==
    \/ Idle /\ DeliverLive(MaxSamples)
    \/ EvalResumes
    \/ FaultyEvalResumes

SpecEvalFaulty == InitEvalRaced /\ [][NextEvalFaulty]_vars

(***************************************************************************)
(* Chat 1 sends commands, authors a trigger and streams its position on a  *)
(* store whose queries may fail, one update at a time.                     *)
(***************************************************************************)
FaultyTexts == {T_start, AddText, T_forgetme, T_home, T_r3}

NextFaulty ==
    \/ Idle /\ DeliverText(FaultyTexts, {1}, MaxMessages)
    \/ Idle /\ DeliverSingle({1}, MaxMessages)
    \/ Idle /\ Deliver(LocationUpd(1, P0, TRUE), MaxMessages)
    \/ AuthorResumes
    \/ EraseResumes
    \/ FaultyEvalResumes
    \/ \E s \in Slots : ResumeStart(s) \/ ResumeCommandFails(s) \/ ResumeAddTriggerFails(s)

SpecFaulty == InitErase /\ [][NextFaulty]_vars

(***************************************************************************)
(* Chat 1 authors triggers and sends the command keywords in between, one  *)
(* update at a time.                                                       *)
(***************************************************************************)
CommandTexts == {AddText, T_home, T_r3, T_menu, T_menuKey, T_list, T_forgetme}

CommandResumes ==
    \E s \in Slots :
       \/ ResumeListUpsert(s) \/ ResumeGetTriggers(s)
       \/ ResumeDelTriggers(s) \/ ResumeDelUser(s)

NextCommands ==
    \/ Idle /\ DeliverText(CommandTexts, {1}, MaxMessages)
    \/ Idle /\ DeliverSingle({1}, MaxMessages)
    \/ AuthorResumes
    \/ CommandResumes

SpecCommands == InitAuthor /\ [][NextCommands]_vars

(***************************************************************************)
(* What the claims speak of: the zone of a trigger, the verdict of a       *)
(* sample, the change between two verdicts.                                *)
(***************************************************************************)
InZone(t, pt) ==
    (t.location.x - pt.lon) * (t.location.x - pt.lon)
      + (t.location.y - pt.lat) * (t.location.y - pt.lat) <= t.radius * t.radius

VerdictAt(t, pt) == IF InZone(t, pt) THEN "inside" ELSE "outside"

Change(before, after) ==
    IF before = "outside" /\ after = "inside" THEN "entered"
    ELSE IF before = "inside" /\ after = "outside" THEN "exited"
    ELSE "none"

OwnedBy(c) == {t \in triggers : t.user_id = c}
EvalDone == lastEval.chat # 0
EvalRow(id) == RowOf(lastEval.rows, id)
Notification(c, kind, name) == Msg(c, kind, name)
Notified(c, kind, name) == \E i \in 1..Len(out) : out[i] = Notification(c, kind, name)

(***************************************************************************)
(* C1.  In the live-location handler, for every trigger of the owner: when *)
(* the sample is inside the zone and the persisted last_state is           *)
(* 'outside', exactly one Entered notification naming the trigger is       *)
(* emitted and last_state becomes 'inside'; when the sample is outside and *)
(* last_state is 'inside', exactly one Exited notification is emitted and  *)
(* last_state becomes 'outside'.  Stated of the evaluation that has just   *)
(* completed, updates being handled one at a time.                         *)
(***************************************************************************)
C1_TransitionCorrect ==
    EvalDone =>
      \A t \in OwnedBy(lastEval.chat) :
        /\ t.id \in RowIds(lastEval.rows)
        /\ (InZone(t, lastEval.pt) /\ EvalRow(t.id).last_state = "outside") =>
              /\ EventsFor(lastEval.events, t.id)
                   = <<[id |-> t.id, kind |-> "entered", name |-> t.name]>>
              /\ t.last_state = "inside"
        /\ (~InZone(t, lastEval.pt) /\ EvalRow(t.id).last_state = "inside") =>
              /\ EventsFor(lastEval.events, t.id)
                   = <<[id |-> t.id, kind |-> "exited", name |-> t.name]>>
              /\ t.last_state = "outside"

\* one evaluation has just entered one zone and left another
C1_Witness ==
    /\ EvalDone
    /\ \E t \in OwnedBy(lastEval.chat) :
          InZone(t, lastEval.pt) /\ EvalRow(t.id).last_state = "outside"
          /\ t.last_state = "inside"
    /\ \E t \in OwnedBy(lastEval.chat) :
          ~InZone(t, lastEval.pt) /\ EvalRow(t.id).last_state = "inside"
          /\ t.last_state = "outside"

(***************************************************************************)
(* C2.  Evaluating a sample for a trigger whose persisted last_state       *)
(* already equals the verdict of the sample emits no notification and      *)
(* performs no updateTriggerState; the same sample evaluated twice in a    *)
(* row yields no event and no write the second time.                       *)
(***************************************************************************)
C2_Idempotent ==
    EvalDone =>
      /\ \A t \in OwnedBy(lastEval.chat) :
            (t.id \in RowIds(lastEval.rows)
               /\ EvalRow(t.id).last_state = VerdictAt(t, lastEval.pt)) =>
                  /\ EventsFor(lastEval.events, t.id) = <<>>
                  /\ WritesFor(lastEval.writes, t.id) = <<>>
      /\ lastEval.repeat => (lastEval.events = <<>> /\ lastEval.writes = <<>> /\ out = <<>>)

\* the second of two evaluations of the same sample, inside a zone
C2_Witness ==
    /\ EvalDone
    /\ lastEval.repeat
    /\ \E t \in OwnedBy(lastEval.chat) : InZone(t, lastEval.pt)
    /\ \E t \in OwnedBy(lastEval.chat) : ~InZone(t, lastEval.pt)

(***************************************************************************)
(* C3.  After every completed evaluation, each trigger's last_state equals *)
(* the verdict computed for it from the most recently evaluated sample of  *)
(* its owner, and last_state is written exactly once per detected          *)
(* transition (and not at all without one).                                *)
(***************************************************************************)
C3_LastStateIsVerdict ==
    /\ EvalDone =>
         \A t \in OwnedBy(lastEval.chat) :
            /\ t.last_state = VerdictAt(t, lastEval.pt)
            /\ Len(WritesFor(lastEval.writes, t.id))
                 = IF EvalRow(t.id).last_state # VerdictAt(t, lastEval.pt) THEN 1 ELSE 0
    /\ Idle =>
         \A t \in triggers :
            t.id \in DOMAIN lastVerdict => t.last_state = lastVerdict[t.id]

\* an evaluation has completed with two writes, and a trigger that was not
\* part of it still carries the verdict of its own owner's last sample
C3_Witness ==
    /\ EvalDone
    /\ Len(lastEval.writes) = 2
    /\ \E t \in triggers :
          t.user_id # lastEval.chat /\ t.id \in DOMAIN lastVerdict
          /\ t.last_state = "inside" /\ trail[t.id].init = "outside"

(***************************************************************************)
(* C4.  For a trigger that starts with last_state 'outside' and samples    *)
(* handled one after another, the emitted events are exactly the changes   *)
(* of the verdict between consecutive samples: inside, outside, outside    *)
(* yields Entered, Exited, no event, and last_state ends 'outside'.        *)
(***************************************************************************)
C4_EventsAreVerdictChanges ==
    \A t \in triggers :
       (t.id \in DOMAIN trail /\ trail[t.id].init = "outside") =>
          LET log == trail[t.id].log
          IN  /\ \A i \in 1..Len(log) :
                    log[i].e = Change(IF i = 1 THEN "outside" ELSE log[i - 1].v, log[i].v)
              /\ (Idle /\ Len(log) > 0) => t.last_state = log[Len(log)].v

\* the scenario of the claim
C4_Witness ==
    \E t \in triggers :
       /\ trail[t.id].init = "outside"
       /\ trail[t.id].log = <<[v |-> "inside", e |-> "entered"],
                              [v |-> "outside", e |-> "exited"],
                              [v |-> "outside", e |-> "none"]>>
       /\ t.last_state = "outside"
       /\ Idle

(***************************************************************************)
(* C5.  Evaluating a sample for owner A never reads or writes a trigger    *)
(* whose owner is B # A: the rows fetched are triggers of A, the row an    *)
(* evaluation is about to write is a trigger of A, the notifications go to *)
(* A, and a step of A's evaluation leaves every trigger of every other     *)
(* owner as it was.  Stated with evaluations of both owners overlapping.   *)
(***************************************************************************)
OwnerOf(id) == {t.user_id : t \in {x \in triggers : x.id = id}}
Evaluating(s) == procs[s].kind = "location" /\ procs[s].pc # "fetch"

C5_ReadsOwn ==
    \A s \in Slots :
       Evaluating(s) =>
          /\ \A id \in RowIds(procs[s].g.rows) : OwnerOf(id) = {procs[s].chat}
          /\ procs[s].pc = "write" => OwnerOf(procs[s].pend.id) = {procs[s].chat}

C5_WritesOwn ==
    \A s \in Slots :
       (procs[s].kind = "location" /\ procs'[s] # procs[s]) =>
          /\ \A t \in triggers : t.user_id # procs[s].chat => t \in triggers'
          /\ \A i \in 1..Len(out') : out'[i].to = procs[s].chat

C5_OwnerIsolation == []C5_ReadsOwn /\ [][C5_WritesOwn]_vars

\* evaluations of the two owners are in flight together, one about to write
C5_Witness ==
    \E s, r \in Slots :
       /\ Evaluating(s) /\ Evaluating(r)
       /\ procs[s].chat # procs[r].chat
       /\ procs[s].pc = "write"
       /\ procs[r].g.rows # <<>>

(***************************************************************************)
(* C6.  Starting from an add-trigger intent, a name text, then a           *)
(* single-shot location, then a valid radius text result in exactly one    *)
(* new persisted trigger owned by that user, carrying that name, those     *)
(* coordinates and that radius, with last_state 'outside', and the user's  *)
(* session no longer exists afterwards.  flow follows the scenario update  *)
(* by update; stage 4 is the valid radius text.                            *)
(***************************************************************************)
RECURSIVE Decimal(_)
Decimal(t) ==
    IF t = <<>> THEN 0
    ELSE 10 * Decimal(SubSeq(t, 1, Len(t) - 1)) + (CHOOSE d \in 0..9 : DigitChars[d + 1] = t[Len(t)])

AllDigits(t) == t # <<>> /\ \A i \in 1..Len(t) : \E d \in 0..9 : DigitChars[d + 1] = t[i]

NewTriggersOf(c) == {t \in triggers : t.user_id = c /\ t.id \notin flow[c].base}
FlowDone(c) == flow[c].stage = 4 /\ Idle

C6_FlowCommitsOneTrigger ==
    \A c \in Chats :
       FlowDone(c) =>
          /\ userStates[c] = 0
          /\ Cardinality(NewTriggersOf(c)) = 1
          /\ \A t \in NewTriggersOf(c) :
                /\ t.name = flow[c].name
                /\ t.location = [x |-> flow[c].pt.lon, y |-> flow[c].pt.lat]
                /\ t.radius = ParseInt(flow[c].rtext).val
                /\ AllDigits(flow[c].rtext) => t.radius = Decimal(flow[c].rtext)
                /\ t.last_state = "outside"

\* the scenario has run to its end for an owner who had a trigger before
C6_Witness ==
    \E c \in Chats :
       /\ FlowDone(c)
       /\ flow[c].base # {}
       /\ \E t \in NewTriggersOf(c) : t.name = T_home /\ t.radius = 3

(***************************************************************************)
(* C7.  In step awaiting_radius, a text that does not parse as a positive  *)
(* integer ("abc", zero, negative) leaves the session in awaiting_radius   *)
(* with its name and location unchanged, creates no trigger (no insert is  *)
(* started) and re-prompts the user.  The texts are free texts: a text     *)
(* that starts with "/" or carries the add command is a command, which the *)
(* session ignores or which restarts it.                                   *)
(***************************************************************************)
BadRadiusTexts == {T_abc, T_zero, T_neg}

C7_Step(c, t) ==
    (/\ SessionOf(World, c).step = "awaiting_radius"
     /\ delivered' = delivered + 1
     /\ Handle(TextUpd(c, t)))
    => /\ userStates' = userStates
       /\ heap' = heap
       /\ triggers' = triggers
       /\ nextId' = nextId
       /\ procs' = procs
       /\ out' = <<Msg(c, "bad_radius", <<>>)>>

C7_BadRadiusReprompts == [][\A c \in Chats, t \in BadRadiusTexts : C7_Step(c, t)]_vars

\* a re-prompt has just been sent to a session in awaiting_radius
C7_Witness ==
    \E c \in Chats :
       /\ SessionOf(World, c).step = "awaiting_radius"
       /\ SessionOf(World, c).data.name = T_home
       /\ out = <<Msg(c, "bad_radius", <<>>)>>

(***************************************************************************)
(* C8.  Authoring rejects an implausibly large radius: no insert is        *)
(* started with a radius above the accepted upper bound, and every trigger *)
(* persisted by the authoring flow, in src/bot.js as in                    *)
(* src/unnamed/part_000, has a radius within the bound.                    *)
(***************************************************************************)
C8_RadiusWithinBound ==
    /\ \A s \in Slots : At(s, "message", "addTrigger") => procs[s].radius <= MaxRadius
    /\ \A t \in triggers : t.id >= FirstNewId => t.radius <= MaxRadius

\* the build of src/bot.js has persisted a radius of 20000
C8_Witness ==
    /\ build = "bot_js"
    /\ \E t \in triggers : t.id >= FirstNewId /\ t.radius = Decimal(T_big)

(***************************************************************************)
(* C9.  After deleteAllUserData(ownerId) (the /forgetme command) has       *)
(* completed, and as long as no trigger has been inserted for that owner   *)
(* since, listing the owner's triggers returns an empty list and every     *)
(* evaluation of a live sample for that owner that fetches after the       *)
(* completion fetches no trigger and emits no event; the two deletes leave *)
(* the users and triggers of other owners unchanged.                       *)
(***************************************************************************)
FetchedAfterErasure(states) == EvalDone /\ lastEval.erased \in states

C9_EmptyWhile(states) ==
    /\ \A c \in Chats :
          erased[c] \in states => (getTriggers(World, c) = <<>> /\ OwnedBy(c) = {})
    /\ FetchedAfterErasure(states) =>
          (lastEval.rows = <<>> /\ lastEval.events = <<>> /\ out = <<>>)

C9_OthersUnchanged ==
    \A s \in Slots :
       (procs[s].kind = "forgetme" /\ procs'[s] # procs[s]) =>
          /\ \A t \in triggers : t.user_id # procs[s].chat => t \in triggers'
          /\ users' \ {procs[s].chat} = users \ {procs[s].chat}

C9_ErasedUntilRefilled == []C9_EmptyWhile({"clean"}) /\ [][C9_OthersUnchanged]_vars

\* the claim as stated: whatever happens after the erasure
C9_ErasedForEver == C9_EmptyWhile({"clean", "refilled"})

\* an evaluation has fetched after the erasure of an owner who had a trigger,
\* while the other owner keeps a trigger
C9_Witness ==
    /\ FetchedAfterErasure({"clean"})
    /\ erased[lastEval.chat] = "clean"
    /\ \E t \in triggers : t.user_id # lastEval.chat
    /\ nextId > FirstNewId

(***************************************************************************)
(* C10.  A new add-trigger intent (/add, /oldadd) always resets the user's *)
(* session to step awaiting_name with empty data, whatever step the        *)
(* session was in, discarding any name or location collected so far; no    *)
(* partial data of the old session ever appears in a trigger committed by  *)
(* the new session: the name and the location an insert is started with    *)
(* were received in the epoch of the session that starts it.  Stated with  *)
(* the updates of the chat overlapping.                                    *)
(***************************************************************************)
C10_AddIntentResets ==
    /\ \A c \in Chats :
          Notified(c, "ask_name", <<>>) =>
             /\ SessionOf(World, c).step = "awaiting_name"
             /\ SessionOf(World, c).data = NoData
    /\ \A s \in Slots :
          At(s, "message", "addTrigger") =>
             /\ procs[s].g.nameEp = procs[s].g.ep
             /\ procs[s].g.locEp = procs[s].g.ep

\* a session that replaced one holding a name starts its insert
C10_Witness ==
    \E s \in Slots :
       /\ At(s, "message", "addTrigger")
       /\ procs[s].g.replaced \in {"awaiting_location", "awaiting_radius"}

(***************************************************************************)
(* C11.  In step awaiting_location, a free-text address that the resolver  *)
(* cannot resolve (not found, or a resolver error: geocodeAddress returns  *)
(* null for both) leaves the session in awaiting_location with no          *)
(* coordinates stored and re-prompts; a resolved address stores the        *)
(* returned coordinates and advances the session to awaiting_radius.       *)
(* Stated of the step at which geocodeAddress returns, updates being       *)
(* handled one at a time.                                                  *)
(***************************************************************************)
C11_Step(s, coords) ==
    (At(s, "message", "geocode") /\ Resume(AfterGeocode(World, s, coords))) =>
        LET c   == procs[s].chat
            ref == userStates[c]
        IN  /\ ref # 0
            /\ heap[ref].step = "awaiting_location"
            /\ userStates'[c] = ref
            /\ triggers' = triggers
            /\ IF coords = NoLoc
               THEN /\ heap'[ref] = heap[ref]
                    /\ heap'[ref].data.location = NoLoc
                    /\ out' = <<Msg(c, "addr_not_found", <<>>)>>
               ELSE /\ heap'[ref].step = "awaiting_radius"
                    /\ heap'[ref].data.location = coords
                    /\ heap'[ref].data.name = heap[ref].data.name
                    /\ out' = <<Msg(c, "ask_radius", <<>>)>>

C11_ResolverOutcome == [][\A s \in Slots, coords \in {P1, NoLoc} : C11_Step(s, coords)]_vars

\* the resolver has just failed for a session that holds a name
C11_Witness ==
    \E c \in Chats :
       /\ SessionOf(World, c).step = "awaiting_location"
       /\ SessionOf(World, c).data.name = T_home
       /\ SessionOf(World, c).data.location = NoLoc
       /\ out = <<Msg(c, "addr_not_found", <<>>)>>

(***************************************************************************)
(* C12.  deleteTrigger(triggerId, userId) removes the trigger and returns  *)
(* true only when the trigger's owner is the requesting user; for a        *)
(* trigger id owned by someone else or not existing it returns false and   *)
(* leaves every trigger in the store unchanged.  Stated of the query on    *)
(* every store the run reaches, and of the step at which the delete button *)
(* handler gets its answer.                                                *)
(***************************************************************************)
Owns(u, id) == \E t \in triggers : t.id = id /\ t.user_id = u

C12_Query ==
    \A u \in Chats, id \in ButtonIds :
       IF Owns(u, id)
       THEN /\ deleteTriggerCount(World, id, u) > 0
            /\ deleteTrigger(World, id, u).triggers = {t \in triggers : t.id # id}
       ELSE /\ deleteTriggerCount(World, id, u) = 0
            /\ deleteTrigger(World, id, u).triggers = triggers

C12_Step(s) ==
    (At(s, "callback", "deleteTrigger") /\ Resume(AfterDeleteTrigger(World, s))) =>
        IF Owns(procs[s].from, procs[s].triggerId)
        THEN /\ triggers' = {t \in triggers : t.id # procs[s].triggerId}
             /\ out' = <<Msg(procs[s].chat, "deleted", <<>>)>>
        ELSE /\ triggers' = triggers
             /\ out' = <<Msg(procs[s].chat, "delete_failed", <<>>)>>

C12_DeleteScoped == []C12_Query /\ [][\A s \in Slots : C12_Step(s)]_vars

\* a delete button of another owner's trigger has just been refused
C12_Witness ==
    \E c \in Chats :
       /\ out = <<Msg(c, "delete_failed", <<>>)>>
       /\ \E t \in triggers : t.user_id # c /\ t.id = 1
       /\ \E t \in triggers : t.user_id = c

(***************************************************************************)
(* C13.  All last_state writes due for a continuous sample complete before *)
(* a second continuous sample of the same owner is evaluated: when the     *)
(* evaluation of a sample fetches, no other evaluation of the same owner   *)
(* stands between its own fetch and its writes.  Stated with the webhook   *)
(* starting handlers while earlier ones wait.                              *)
(***************************************************************************)
MidEvaluation(s, c) ==
    procs[s].kind = "location" /\ procs[s].chat = c /\ procs[s].pc = "write"

C13_Step(r) ==
    (At(r, "location", "fetch") /\ procs'[r] # procs[r]) =>
        \A s \in Slots \ {r} : ~MidEvaluation(s, procs[r].chat)

C13_FetchSeesCompleteState == [][\A r \in Slots : C13_Step(r)]_vars

\* two evaluations of one owner have both announced the same transition of the
\* same trigger and both wait for their write
C13_Witness ==
    \E s, r \in Slots :
       /\ s # r
       /\ MidEvaluation(s, procs[s].chat)
       /\ MidEvaluation(r, procs[s].chat)
       /\ procs[s].pend = procs[r].pend

(***************************************************************************)
(* C14.  When the last_state write of one trigger fails during the         *)
(* evaluation of a sample, that trigger's transition is left not applied   *)
(* and the other triggers of the same batch are still evaluated, with      *)
(* their due events emitted and their due writes performed as if the       *)
(* failure had not happened.  Stated of the evaluation that has just ended *)
(* on a failed write.                                                      *)
(***************************************************************************)
WriteFailed == EvalDone /\ lastEval.failed.id # 0
Due(r) == r.last_state # Verdict(r.is_inside)
CurrentState(id) == LastStateOf(World, id)

C14_OthersUnaffected ==
    WriteFailed =>
       \A i \in 1..Len(lastEval.rows) :
          LET r == lastEval.rows[i]
          IN  IF r.id = lastEval.failed.id
              THEN CurrentState(r.id) = r.last_state
              ELSE Due(r) => /\ Len(EventsFor(lastEval.events, r.id)) = 1
                             /\ Len(WritesFor(lastEval.writes, r.id)) = 1
                             /\ CurrentState(r.id) = Verdict(r.is_inside)

\* an evaluation has ended on the failed write of one trigger and has left a
\* due trigger of the same batch without event and without write
C14_Witness ==
    /\ WriteFailed
    /\ \E i \in 1..Len(lastEval.rows) :
          /\ lastEval.rows[i].id # lastEval.failed.id
          /\ Due(lastEval.rows[i])
          /\ EventsFor(lastEval.events, lastEval.rows[i].id) = <<>>
          /\ CurrentState(lastEval.rows[i].id) = lastEval.rows[i].last_state

(***************************************************************************)
(* C15.  No error crashes the process: a store failure raised inside any   *)
(* handler (/start, add intent, /list, /forgetme, delete callback,         *)
(* location, text message) is caught inside that handler, so no handler    *)
(* ends with an uncaught error and the bot keeps processing later updates. *)
(***************************************************************************)
C15_EveryErrorCaught == alive /\ uncaught = {}

\* in src/bot.js the add command has ended with its rejection unhandled
C15_Witness == build = "bot_js" /\ "add" \in uncaught

(***************************************************************************)
(* C19.  For every detected transition the notification is sent before the *)
(* last_state write is confirmed: while the write is awaited the event is  *)
(* already out and the row still holds its old value.  Consequently, if    *)
(* that write fails, last_state keeps its old value, and the next live     *)
(* sample with the same verdict, when its evaluation reaches the trigger,  *)
(* emits the same Entered/Exited notification for it a second time.        *)
(***************************************************************************)
KindOf(st) == IF st = "inside" THEN "entered" ELSE "exited"
RowIndex(id) == CHOOSE i \in 1..Len(lastEval.rows) : lastEval.rows[i].id = id

\* the loop of the evaluation that has just ended got as far as trigger id
Reached(id) ==
    \/ lastEval.failed.kind = "none"
    \/ lastEval.failed.id # 0 /\ RowIndex(lastEval.failed.id) >= RowIndex(id)

C19_NotifiedBeforeWrite ==
    \A s \in Slots :
       At(s, "location", "write") =>
          LET p == procs[s]
          IN  /\ p.g.events # <<>>
              /\ p.g.events[Len(p.g.events)].id = p.pend.id
              /\ p.g.events[Len(p.g.events)].kind = KindOf(p.pend.st)
              /\ Len(WritesFor(p.g.writes, p.pend.id)) = 0
              /\ CurrentState(p.pend.id) # p.pend.st

C19_FailedWriteKeepsState ==
    WriteFailed =>
       CurrentState(lastEval.failed.id) = EvalRow(lastEval.failed.id).last_state

C19_NotifiedAgain ==
    LET f == lastEval.prevFailed
    IN  (/\ EvalDone
         /\ f.id # 0
         /\ f.id \in RowIds(lastEval.rows)
         /\ f.kind = KindOf(Verdict(EvalRow(f.id).is_inside))
         /\ Reached(f.id))
        => \E i \in 1..Len(lastEval.events) :
              lastEval.events[i].id = f.id /\ lastEval.events[i].kind = f.kind

C19_NotifyThenWrite ==
    C19_NotifiedBeforeWrite /\ C19_FailedWriteKeepsState /\ C19_NotifiedAgain

\* the evaluation after a failed write has announced the same transition again
C19_Witness ==
    /\ EvalDone
    /\ lastEval.prevFailed.id # 0
    /\ lastEval.failed = NoFailure
    /\ \E i \in 1..Len(lastEval.events) :
          /\ lastEval.events[i].id = lastEval.prevFailed.id
          /\ lastEval.events[i].kind = lastEval.prevFailed.kind

(***************************************************************************)
(* C16.  Location routing is exclusive.  A live sample is handled only by  *)
(* the geofence evaluation: neither its arrival nor a later step of its    *)
(* evaluation creates, advances or alters a session, even when the session *)
(* is in awaiting_location.  A single-shot sample starts no evaluation and *)
(* writes no last_state, and it changes a session only when the sender's   *)
(* session is in awaiting_location (then the location is taken and the     *)
(* step becomes awaiting_radius); otherwise it changes nothing.            *)
(***************************************************************************)
\* the handlers of update u have run up to their first await
Handled(u) == delivered' = delivered + 1 /\ ~Dispatch(World, u).overflow /\ Handle(u)

SessionsUnchanged == userStates' = userStates /\ heap' = heap

\* the chats that send location updates and the positions they send
Senders == {1}
Sent == {P1}

C16_Live ==
    \A c \in Senders, pt \in Sent :
       Handled(LocationUpd(c, pt, TRUE)) =>
          /\ SessionsUnchanged
          /\ \E s \in Slots : procs[s] = NoProc /\ At(s, "location", "fetch")'

C16_Evaluation ==
    \A s \in Slots :
       (procs[s].kind = "location" /\ procs'[s] # procs[s]) => SessionsUnchanged

C16_Single ==
    \A c \in Senders, pt \in Sent :
       Handled(LocationUpd(c, pt, FALSE)) =>
          /\ procs' = procs
          /\ triggers' = triggers
          /\ userStates' = userStates
          /\ IF SessionOf(World, c).step = "awaiting_location"
             THEN heap' = [heap EXCEPT ![userStates[c]].step = "awaiting_radius",
                                       ![userStates[c]].data.location = pt,
                                       ![userStates[c]].data.locEp = epoch[c]]
             ELSE heap' = heap

C16_Step == C16_Live /\ C16_Evaluation /\ C16_Single

C16_RoutingExclusive == [][C16_Step]_vars

\* a live sample is being evaluated for a chat whose session still awaits a location
C16_Witness ==
    \E s \in Slots :
       /\ procs[s].kind = "location"
       /\ SessionOf(World, procs[s].chat).step = "awaiting_location"

(***************************************************************************)
(* C17.  The step of a session only moves forward along awaiting_name,     *)
(* awaiting_location, awaiting_radius, committed.  In every interleaving   *)
(* of texts, locations, add intents and completions of awaited calls, no   *)
(* step of the handlers moves the step of a session object backward or     *)
(* over a step; an insert is started only from awaiting_radius with the    *)
(* name and the location of the session set, and a trigger is created only *)
(* by such an insert; a session in awaiting_name appears only as the new   *)
(* session of an add intent.                                               *)
(***************************************************************************)
Rank(step) ==
    CASE step = "awaiting_name"     -> 1
      [] step = "awaiting_location" -> 2
      [] step = "awaiting_radius"   -> 3

\* the session object is ready to be committed
Complete(st) ==
    /\ st.step = "awaiting_radius"
    /\ st.data.name # <<>>
    /\ st.data.location # NoLoc

C17_Forward ==
    \A r \in DOMAIN heap \cap DOMAIN heap' :
       Rank(heap'[r].step) \in {Rank(heap[r].step), Rank(heap[r].step) + 1}

C17_NewFromIntent ==
    \A r \in DOMAIN heap' \ DOMAIN heap :
       /\ heap'[r].step = "awaiting_name"
       /\ heap'[r].data = NoData
       /\ \E s \in Slots : At(s, "add", "upsert") /\ procs'[s] = NoProc
                           /\ userStates'[procs[s].chat] = r

C17_CommitFromRadius ==
    /\ \A s \in Slots :
          (procs[s] # procs'[s] /\ At(s, "message", "addTrigger")') =>
             LET p == procs'[s]
             IN  /\ p.state \in DOMAIN heap
                 /\ Complete(heap[p.state])
                 /\ p.name = heap[p.state].data.name
                 /\ [lat |-> p.lat, lon |-> p.lon] = heap[p.state].data.location
    /\ triggers' \ triggers # {} =>
          \E s \in Slots : /\ At(s, "message", "addTrigger")
                           /\ procs'[s] = NoProc
                           /\ Complete(heap[procs[s].state])

C17_Step == C17_Forward /\ C17_NewFromIntent /\ C17_CommitFromRadius

C17_StepsForward == [][C17_Step]_vars

\* an insert has been started from awaiting_radius while an address search
\* started at awaiting_location is still pending for the same session
C17_Witness ==
    \E s, t \in Slots :
       /\ At(s, "message", "addTrigger")
       /\ At(t, "message", "geocode")
       /\ procs[s].state = procs[t].state

(***************************************************************************)
(* C18.  A text that is a command keyword rather than the input awaited by *)
(* the current step (/menu, /list, /forgetme or the menu key "Главное      *)
(* меню", written T_menuKey) is ignored by the authoring session: the      *)
(* handlers of such an update leave the step and the collected data of the *)
(* session as they are and start neither an address search nor an insert.  *)
(***************************************************************************)
\* the menu key is a button of src/bot.js only
Keywords ==
    {T_menu, T_list, T_forgetme} \cup (IF build = "bot_js" THEN {T_menuKey} ELSE {})

C18_Step ==
    \A c \in Senders, t \in Keywords :
       Handled(TextUpd(c, t)) =>
          /\ SessionsUnchanged
          /\ triggers' = triggers
          /\ \A s \in Slots : procs'[s].kind = "message" => procs'[s] = procs[s]

C18_KeywordsIgnored == [][C18_Step]_vars

\* a trigger named after the menu key has been created
C18_Witness == build = "bot_js" /\ \E t \in triggers : t.name = T_menuKey

(***************************************************************************)
(* C20.  For every trigger, in every interleaving of the live-location     *)
(* handlers that the webhook starts for its owner, the notifications       *)
(* emitted so far strictly alternate Entered, Exited, Entered, ...: no two *)
(* consecutive notifications of a trigger are of the same kind, and the    *)
(* first one of a trigger that started 'outside' is Entered.  (No store    *)
(* write fails in the environment this is stated for.)                     *)
(***************************************************************************)
\* the kinds of the notifications sent for trigger t, in the order of sending
NotesOf(t) == trail[t.id].notes

C20_NotificationsAlternate ==
    \A t \in triggers :
       LET n == NotesOf(t)
       IN  /\ \A i \in 1..(Len(n) - 1) : n[i] # n[i + 1]
           /\ (n # <<>> /\ trail[t.id].init = "outside") => n[1] = "entered"

\* Entered has been sent twice in a row for a trigger
C20_Witness ==
    \E t \in triggers :
       \E i \in 1..(Len(NotesOf(t)) - 1) :
          NotesOf(t)[i] = "entered" /\ NotesOf(t)[i + 1] = "entered"

(***************************************************************************)
(* C21.  One authoring session commits at most one trigger: between an add *)
(* intent and the destruction of the session it created, addTrigger is     *)
(* invoked at most once for that user, also when a second valid radius     *)
(* text is handled while the first addTrigger call is still pending.  A    *)
(* session leaves userStates when its first insert returns, so a second    *)
(* invocation for the same session is one made while the first is awaited: *)
(* no two pending inserts belong to the same session object.               *)
(***************************************************************************)
Inserting(s) == At(s, "message", "addTrigger")

C21_OneInsertPerSession ==
    \A s, t \in Slots :
       (Inserting(s) /\ Inserting(t) /\ procs[s].state = procs[t].state) => s = t

\* after a single add intent of chat 1, two triggers have been created
C21_Witness ==
    /\ epoch[1] = 1
    /\ Cardinality({t \in triggers : t.id >= FirstNewId /\ t.user_id = 1}) = 2

(***************************************************************************)
(* C22.  A session created by an add intent is destroyed only by its own   *)
(* commit or its own error: when a pending addTrigger or resolver call of  *)
(* an older session returns, its cleanup (delete userStates[chatId]) never *)
(* removes a newer session that an add intent has created for the same     *)
(* user while the call was pending.                                        *)
(***************************************************************************)
\* the call awaited in slot s was started by a session that an add intent
\* has replaced since
Superseded(s) ==
    /\ procs[s].kind = "message"
    /\ userStates[procs[s].chat] # 0
    /\ userStates[procs[s].chat] # procs[s].state

C22_Step ==
    \A s \in Slots :
       (Superseded(s) /\ procs'[s] = NoProc) =>
          userStates'[procs[s].chat] = userStates[procs[s].chat]

C22_CleanupOwnSession == [][C22_Step]_vars

\* an insert of an older session is pending while a newer session awaits its name
C22_Witness ==
    \E s \in Slots :
       /\ Inserting(s)
       /\ Superseded(s)
       /\ SessionOf(World, procs[s].chat).step = "awaiting_name"

====
